---- MODULE Spec2Model ----
(***************************************************************************)
(* Wandr: the itinerary scheduler (engine/scheduler.py), the scorer it     *)
(* ranks candidates with (engine/scorer.py) and the lock/exclude manager   *)
(* that re-invokes it (utils/editor.py).                                   *)
(*                                                                         *)
(* Units.  Durations and hours are whole half hours (3 is 1.5 h), prices   *)
(* and budgets whole dollars, distances whole hectometres (20 is 2 km),    *)
(* and scores are kept in twentieths of a point (Pts(40) is 40 points), so *)
(* that price * 0.15, price * 0.8 and 20 - distance * 5 stay integers.     *)
(* The Activity dataclass and the scorer name the duration `duration`, the *)
(* scheduler, DayPlan and the editor read it as `duration_hours`; the      *)
(* model has the one field, `duration`.                                    *)
(* Dates are day ordinals.  Locations are points on one meridian, given by *)
(* their distance along it; NoLocation stands for None.                    *)
(***************************************************************************)
EXTENDS Integers, Sequences, FiniteSets, TLC

\* ------------------------------------------------------------------ bounds
MaxActs == 2
MaxLocked == 2
MaxDays == 2
MaxDayLocks == 2
MaxContext == 3

\* ------------------------------------------------------------- data model
NoLocation == 0 - 1

NoDay == 0 - 1

\* A category of None.
NoCategory == "<None>"

Activity(n, c, d, p, l) ==
  [name |-> n, category |-> c, duration |-> d, price |-> p, location |-> l]

\* The Activity values the inputs are drawn from.
ActivityUniverse ==
  { Activity("Museum",  "Museum", 4,  20, 0),
    Activity("Park",    "nature", 2,  0,  10),
    Activity("Theater", "entertainment", 6, 100, 80),
    Activity("Viewpoint", "landmark", 0, 5, NoLocation) }

DayPlan(d) == [date |-> d, activities |-> <<>>]

add_activity(dp, a) == [dp EXCEPT !.activities = Append(@, a)]

RECURSIVE SumPrice(_)
SumPrice(s) == IF s = <<>> THEN 0 ELSE Head(s).price + SumPrice(Tail(s))

RECURSIVE SumDuration(_)
SumDuration(s) == IF s = <<>> THEN 0 ELSE Head(s).duration + SumDuration(Tail(s))

total_cost(dp) == SumPrice(dp.activities)

total_duration(dp) == SumDuration(dp.activities)

Trip(s, e, b) ==
  [start_date |-> s, end_date |-> e, budget |-> b, itinerary |-> <<>>]

trip_length(t) == (t.end_date - t.start_date) + 1

UserPreferences(i, b, s, m, c) ==
  [interests |-> i, budget |-> b, schedule_type |-> s,
   max_hours_per_day |-> m, prioritize_cost |-> c]

\* -------------------------------------------------------------- haversine
\* Great-circle distance of two points of one meridian: R * |dlat|.
haversine_distance_km(a, b) == IF a >= b THEN a - b ELSE b - a

\* ----------------------------------------------------------------- scorer
Pts(n) == 20 * n

\* str.lower() on the category spellings that occur.
Lower(s) ==
  CASE s = "Museum" -> "museum"
    [] s = "MUSEUM" -> "museum"
    [] s = "Nature" -> "nature"
    [] s = "Tour"   -> "tour"
    [] OTHER        -> s

complementary(c) ==
  CASE c = "museum"   -> {"landmark", "tour"}
    [] c = "nature"   -> {"tour"}
    [] c = "landmark" -> {"museum", "tour"}
    [] c = "tour"     -> {"museum", "landmark", "nature"}
    [] OTHER          -> {}

SeqRange(s) == { s[i] : i \in 1..Len(s) }

\* The interest bonus as it was before it was raised to 40.
InterestTermThirty(a, p) ==
  IF Lower(a.category) \in { Lower(i) : i \in SeqRange(p.interests) }
  THEN Pts(30)
  ELSE IF \E i \in SeqRange(p.interests) :
             Lower(a.category) \in complementary(Lower(i))
       THEN Pts(10)
       ELSE 0

InterestTerm(a, p) ==
  IF Lower(a.category) \in { Lower(i) : i \in SeqRange(p.interests) }
  THEN Pts(40)
  ELSE IF \E i \in SeqRange(p.interests) :
             Lower(a.category) \in complementary(Lower(i))
       THEN Pts(10)
       ELSE 0

CostTerm(a, p) ==
  IF p.prioritize_cost
  THEN IF a.price = 0 THEN Pts(15)
       ELSE IF a.price < 20 THEN Pts(5)
       ELSE 0 - 16 * a.price
  ELSE IF a.price = 0 THEN Pts(5)
       ELSE 0 - 3 * a.price

ScheduleTerm(a, p) ==
  IF p.schedule_type = "relaxed"
  THEN IF a.duration <= 4 THEN Pts(15)
       ELSE IF a.duration >= 8 THEN 0 - Pts(10)
       ELSE 0
  ELSE IF p.schedule_type = "packed"
  THEN IF a.duration >= 4 THEN Pts(10) ELSE 0
  ELSE IF 3 <= a.duration /\ a.duration <= 6 THEN Pts(10) ELSE 0

\* (category or ""): None counts as the empty string.
OrEmpty(c) == IF c = NoCategory THEN "" ELSE c

CategoryCount(a, sched) ==
  Cardinality({ i \in 1..Len(sched) :
                  Lower(OrEmpty(sched[i].category)) = Lower(a.category) })

VarietyTerm(a, sched) ==
  LET count == CategoryCount(a, sched)
  IN  IF count = 0 THEN Pts(10)
      ELSE IF count = 1 THEN 0
      ELSE IF count = 2 THEN 0 - Pts(10)
      ELSE 0 - Pts(20)

FlexibilityTerm(a) ==
  IF a.duration <= 2 THEN Pts(8)
  ELSE IF a.duration <= 4 THEN Pts(5)
  ELSE IF a.duration <= 6 THEN Pts(2)
  ELSE 0

score_activity(a, p, sched) ==
  InterestTerm(a, p) + CostTerm(a, p) + ScheduleTerm(a, p)
    + VarietyTerm(a, sched) + FlexibilityTerm(a)

\* Line 46: activity.category.lower() raises AttributeError on None.
score_activity_raises(a) == a.category = NoCategory

\* list.sort(reverse=True, key=score): stable, equal scores keep input order.
RECURSIVE InsertByScore(_, _)
InsertByScore(sorted, x) ==
  IF sorted = <<>> THEN <<x>>
  ELSE IF Head(sorted).score >= x.score
       THEN <<Head(sorted)>> \o InsertByScore(Tail(sorted), x)
       ELSE <<x>> \o sorted

RECURSIVE SortByScoreDesc(_, _)
SortByScoreDesc(done, rest) ==
  IF rest = <<>> THEN done
  ELSE SortByScoreDesc(InsertByScore(done, Head(rest)), Tail(rest))

\* Lines 44-47, each candidate scored against those ranked before it.
ScoreAndSortWithVariety(acts, p) ==
  SortByScoreDesc(<<>>,
    [i \in 1..Len(acts) |->
       [score |-> score_activity(acts[i], p, SubSeq(acts, 1, i - 1)),
        activity |-> acts[i]]])

\* Lines 44-47.
ScoreAndSort(acts, p) ==
  SortByScoreDesc(<<>>,
    [i \in 1..Len(acts) |-> [score |-> score_activity(acts[i], p, <<>>),
                             activity |-> acts[i]]])

\* -------------------------------------------------------------- scheduler
VARIABLES
  trip,               \* the Trip: start_date, end_date, budget
  activities,         \* the candidate list handed to create_itinerary
  prefs,              \* the UserPreferences
  locked,             \* the locked_activities argument
  pc,                 \* position in create_itinerary
  scored_activities,  \* the ranking: (score, activity), best first
  itinerary,          \* the day plans appended so far
  current_date,
  remaining_budget,
  used,               \* the set of activities placed so far
  day,                \* the day plan being filled
  hours_left,
  last_location,
  seeded,             \* whether the locked step placed an activity today
  \* the ItineraryManager (utils/editor.py)
  locked_activities,
  locked_per_day,
  excluded_activities,
  current_itinerary,
  fresh,              \* current_itinerary is what the last call generated
  day_locked,         \* the (activity, day) locks granted and not unlocked since
  \* a call of one of the pure functions
  args,               \* its arguments
  result              \* what it returned, once it has

schedVars ==
  <<pc, scored_activities, itinerary, current_date, remaining_budget, used,
    day, hours_left, last_location, seeded>>

inputVars == <<trip, activities, prefs, locked>>

mgrVars ==
  <<locked_activities, locked_per_day, excluded_activities, current_itinerary,
    fresh, day_locked>>

fnVars == <<args, result>>

vars == <<inputVars, schedVars, mgrVars, fnVars>>

\* The scheduler's loop state as one value, so that the steps below serve both
\* the step-by-step specification and the whole call made by the manager.
LoopState(it, cd, rb, u, d, hl, ll, sd) ==
  [itinerary |-> it, current_date |-> cd, remaining_budget |-> rb, used |-> u,
   day |-> d, hours_left |-> hl, last_location |-> ll, seeded |-> sd]

\* Lines 50-53: the state before the day loop.
InitialLoopState(t) ==
  LoopState(<<>>, t.start_date, t.budget, {}, DayPlan(t.start_date), 0,
            NoLocation, FALSE)

\* Line 58: while current_date <= trip.end_date.
DayLoopCondNoLastDay(cd, t) == cd < t.end_date

DayLoopCond(cd, t) == cd <= t.end_date

\* Lines 59-60, had the hours not spent been carried over to the next day.
BeginDayCarryHours(st, p) ==
  [st EXCEPT !.day = DayPlan(st.current_date),
             !.hours_left = @ + p.max_hours_per_day,
             !.seeded = FALSE]

\* Lines 59-60: a fresh day plan and a full day of hours.
BeginDay(st, p) ==
  [st EXCEPT !.day = DayPlan(st.current_date),
             !.hours_left = p.max_hours_per_day,
             !.seeded = FALSE]

\* Lines 64-65: a locked activity qualifies for seeding.
LockedFitsAnyDuration(a, u, hl) == a \notin u

LockedFits(a, u, hl) == a \notin u /\ a.duration <= hl

RECURSIVE FirstLocked(_, _, _, _)
FirstLocked(lk, i, u, hl) ==
  IF i > Len(lk) THEN 0
  ELSE IF LockedFits(lk[i], u, hl) THEN i
  ELSE FirstLocked(lk, i + 1, u, hl)

\* Lines 66-69, 87-89, 125-129, without used.add.
PlaceNotUsed(st, a) ==
  [st EXCEPT !.day = add_activity(@, a),
             !.hours_left = @ - a.duration,
             !.remaining_budget = @ - a.price]

\* Lines 66-69, 87-89, 125-129: place an activity and debit hours and budget.
Place(st, a) ==
  [st EXCEPT !.day = add_activity(@, a),
             !.used = @ \cup {a},
             !.hours_left = @ - a.duration,
             !.remaining_budget = @ - a.price]

\* Lines 63-70, had line 65 also asked that the price fits the budget.
SeedLockedStepWithinBudget(st, lk) ==
  LET i == FirstLocked(lk, 1, st.used, st.hours_left)
  IN  IF i = 0 \/ st.remaining_budget - lk[i].price < 0 THEN st
      ELSE [Place(st, lk[i]) EXCEPT !.seeded = TRUE]

\* Lines 63-70: the first qualifying locked activity, and only that one.
SeedLockedStep(st, lk) ==
  LET i == FirstLocked(lk, 1, st.used, st.hours_left)
  IN  IF i = 0 THEN st
      ELSE [Place(st, lk[i]) EXCEPT !.seeded = TRUE]

\* Lines 83-84: a candidate qualifies as the day's anchor.
AnchorEligibleNoUsed(a, u, hl, rb) ==
  a.duration <= hl /\ rb - a.price >= 0

AnchorEligibleNoDuration(a, u, hl, rb) ==
  a \notin u /\ rb - a.price >= 0

AnchorEligibleNoBudget(a, u, hl, rb) ==
  a \notin u /\ a.duration <= hl

AnchorEligible(a, u, hl, rb) ==
  a \notin u /\ a.duration <= hl /\ rb - a.price >= 0

RECURSIVE FirstAnchor(_, _, _, _, _)
FirstAnchor(sc, i, u, hl, rb) ==
  IF i > Len(sc) THEN 0
  ELSE IF AnchorEligible(sc[i].activity, u, hl, rb) THEN i
  ELSE FirstAnchor(sc, i + 1, u, hl, rb)

\* Lines 73-90: the anchor is the seeded activity, or else the best-ranked
\* candidate that fits.
SelectAnchorStep(st, sc) ==
  IF st.day.activities /= <<>>
  THEN [st EXCEPT !.last_location =
                     st.day.activities[Len(st.day.activities)].location]
  ELSE LET i == FirstAnchor(sc, 1, st.used, st.hours_left, st.remaining_budget)
       IN  IF i = 0 THEN [st EXCEPT !.last_location = NoLocation]
           ELSE [Place(st, sc[i].activity) EXCEPT
                    !.last_location = sc[i].activity.location]

\* Lines 98-105: a candidate qualifies for the fill loop.
FillEligibleNoDuration(a, u, hl, rb) ==
  a \notin u /\ ~(rb - a.price < 0)

FillEligibleFreeAlways(a, u, hl, rb) ==
  a \notin u /\ ~(a.duration > hl) /\ (a.price = 0 \/ ~(rb - a.price < 0))

FillEligibleNoBudget(a, u, hl, rb) ==
  a \notin u /\ ~(a.duration > hl)

FillEligible(a, u, hl, rb) ==
  a \notin u /\ ~(a.duration > hl) /\ ~(rb - a.price < 0)

\* Lines 108-115, with the bonus and the penalty left out.
ProximityBonusNone(ll, loc) == 0

\* Lines 108-115.
ProximityBonus(ll, loc) ==
  IF ll /= NoLocation /\ loc /= NoLocation
  THEN LET distance == haversine_distance_km(ll, loc)
       IN  IF distance < 20 THEN Pts(20) - 10 * distance
           ELSE IF distance > 50 THEN 0 - Pts(10)
           ELSE 0
  ELSE 0

\* Lines 94-121: the scan of the ranking; best = 0 is best_nearby = None.
RECURSIVE ScanNearby(_, _, _, _, _)
ScanNearby(sc, i, st, best, best_score) ==
  IF i > Len(sc) THEN best
  ELSE IF ~FillEligible(sc[i].activity, st.used, st.hours_left,
                        st.remaining_budget)
       THEN ScanNearby(sc, i + 1, st, best, best_score)
       ELSE LET adjusted_score ==
                  sc[i].score + ProximityBonus(st.last_location,
                                               sc[i].activity.location)
            IN  IF best = 0 \/ adjusted_score > best_score
                THEN ScanNearby(sc, i + 1, st, i, adjusted_score)
                ELSE ScanNearby(sc, i + 1, st, best, best_score)

BestNearby(st, sc) == ScanNearby(sc, 1, st, 0, 0)

\* Line 93 and line 124, had the loop asked for more than an hour left.
FillContinuesAboveAnHour(st, sc) ==
  st.hours_left > 2 /\ BestNearby(st, sc) /= 0

\* Line 93 and line 124: the fill loop goes round once more.
FillContinues(st, sc) == st.hours_left > 0 /\ BestNearby(st, sc) /= 0

\* Lines 125-129.
FillStep(st, sc) ==
  LET a == sc[BestNearby(st, sc)].activity
  IN  [Place(st, a) EXCEPT !.last_location = a.location]

\* Line 137: current_date += timedelta(days=1).
NextDateSkip(d) == d + 2

NextDate(d) == d + 1

\* Lines 134-137.
AppendDayStep(st) ==
  [st EXCEPT !.itinerary = Append(@, st.day),
             !.current_date = NextDate(@)]

RECURSIVE FillLoop(_, _)
FillLoop(st, sc) ==
  IF FillContinues(st, sc) THEN FillLoop(FillStep(st, sc), sc) ELSE st

RECURSIVE DayLoop(_, _, _, _, _)
DayLoop(st, t, sc, p, lk) ==
  IF DayLoopCond(st.current_date, t)
  THEN DayLoop(
         AppendDayStep(
           FillLoop(SelectAnchorStep(SeedLockedStep(BeginDay(st, p), lk), sc),
                    sc)),
         t, sc, p, lk)
  ELSE st

\* create_itinerary(trip, activities, prefs, locked_activities) as one call.
create_itinerary(t, acts, p, lk) ==
  DayLoop(InitialLoopState(t), t, ScoreAndSort(acts, p), p, lk).itinerary

\* ------------------------------------------------------------ the inputs
RECURSIVE SeqsOfLen(_, _)
SeqsOfLen(S, n) ==
  IF n = 0 THEN { <<>> }
  ELSE { Append(s, x) : s \in SeqsOfLen(S, n - 1), x \in S }

SeqsUpTo(S, n) == UNION { SeqsOfLen(S, k) : k \in 0..n }

Budgets == {0, 100}

HoursPerDay == {4, 8}

Trips == { Trip(1, e, b) : e \in 1..MaxDays, b \in Budgets }

Preferences ==
  { UserPreferences(<<"museum">>, 50, "balanced", m, FALSE) :
      m \in HoursPerDay }
  \cup
  { UserPreferences(<<"Nature", "tour">>, 500, "relaxed", m, TRUE) :
      m \in HoursPerDay }

NoLocks == [d \in {} |-> <<>>]

\* ItineraryManager.__init__ (lines 16-23).
MgrInit ==
  /\ locked_activities = {}
  /\ locked_per_day = NoLocks
  /\ excluded_activities = {}
  /\ current_itinerary = <<>>
  /\ fresh = FALSE
  /\ day_locked = {}

\* No pure function is being called.
NoCall ==
  /\ args = [fn |-> "none"]
  /\ result = [returned |-> FALSE]

SchedInit ==
  /\ pc = "score"
  /\ scored_activities = <<>>
  /\ itinerary = <<>>
  /\ current_date = trip.start_date
  /\ remaining_budget = trip.budget
  /\ used = {}
  /\ day = DayPlan(trip.start_date)
  /\ hours_left = 0
  /\ last_location = NoLocation
  /\ seeded = FALSE

Init ==
  /\ trip \in Trips
  /\ activities \in SeqsUpTo(ActivityUniverse, MaxActs)
  /\ prefs \in Preferences
  /\ locked \in SeqsUpTo(ActivityUniverse, MaxLocked)
  /\ SchedInit
  /\ MgrInit
  /\ NoCall

\* ------------------------------------------- create_itinerary step by step
Cur ==
  LoopState(itinerary, current_date, remaining_budget, used, day, hours_left,
            last_location, seeded)

Becomes(st) ==
  /\ itinerary' = st.itinerary
  /\ current_date' = st.current_date
  /\ remaining_budget' = st.remaining_budget
  /\ used' = st.used
  /\ day' = st.day
  /\ hours_left' = st.hours_left
  /\ last_location' = st.last_location
  /\ seeded' = st.seeded

\* Lines 41-53, had line 47 sorted the caller's list itself.
ScoreActivitiesInPlace ==
  /\ pc = "score"
  /\ scored_activities' = ScoreAndSort(activities, prefs)
  /\ activities' = [i \in 1..Len(activities) |->
                      ScoreAndSort(activities, prefs)[i].activity]
  /\ Becomes(InitialLoopState(trip))
  /\ pc' = "loop"
  /\ UNCHANGED <<trip, prefs, locked, fnVars, mgrVars>>

\* Lines 41-53.
ScoreActivities ==
  /\ pc = "score"
  /\ scored_activities' = ScoreAndSort(activities, prefs)
  /\ Becomes(InitialLoopState(trip))
  /\ pc' = "loop"
  /\ UNCHANGED <<inputVars, fnVars, mgrVars>>

\* Lines 58-60.
StartDay ==
  /\ pc = "loop"
  /\ DayLoopCond(current_date, trip)
  /\ Becomes(BeginDay(Cur, prefs))
  /\ pc' = "seed"
  /\ UNCHANGED <<inputVars, fnVars, mgrVars, scored_activities>>

\* Lines 62-70.
SeedLocked ==
  /\ pc = "seed"
  /\ Becomes(SeedLockedStep(Cur, locked))
  /\ pc' = "anchor"
  /\ UNCHANGED <<inputVars, fnVars, mgrVars, scored_activities>>

\* Lines 72-90.
SelectAnchor ==
  /\ pc = "anchor"
  /\ Becomes(SelectAnchorStep(Cur, scored_activities))
  /\ pc' = "fill"
  /\ UNCHANGED <<inputVars, fnVars, mgrVars, scored_activities>>

\* Lines 93-129: one round of the fill loop that places an activity.
FillOne ==
  /\ pc = "fill"
  /\ FillContinues(Cur, scored_activities)
  /\ Becomes(FillStep(Cur, scored_activities))
  /\ pc' = "fill"
  /\ UNCHANGED <<inputVars, fnVars, mgrVars, scored_activities>>

\* Lines 93, 130-137: the fill loop ends and the day is appended.
FinishDay ==
  /\ pc = "fill"
  /\ ~FillContinues(Cur, scored_activities)
  /\ Becomes(AppendDayStep(Cur))
  /\ pc' = "loop"
  /\ UNCHANGED <<inputVars, fnVars, mgrVars, scored_activities>>

\* Lines 58, 140.
Return ==
  /\ pc = "loop"
  /\ ~DayLoopCond(current_date, trip)
  /\ pc' = "done"
  /\ UNCHANGED <<inputVars, fnVars, mgrVars, scored_activities, itinerary,
                 current_date, remaining_budget, used, day, hours_left,
                 last_location, seeded>>

Next ==
  \/ ScoreActivities
  \/ StartDay
  \/ SeedLocked
  \/ SelectAnchor
  \/ FillOne
  \/ FinishDay
  \/ Return

Spec == Init /\ [][Next]_vars

\* ------------------------------------------------------- ItineraryManager
\* The activities on offer, in catalogue order.
Catalogue ==
  << Activity("Museum",  "Museum", 4,  20, 0),
     Activity("Park",    "nature", 2,  0,  10),
     Activity("Theater", "entertainment", 6, 100, 80),
     Activity("Viewpoint", "landmark", 0, 5, NoLocation) >>

InitMgr ==
  /\ trip \in { Trip(1, 2, b) : b \in Budgets }
  /\ activities \in { SubSeq(Catalogue, i, i + 1) :
                        i \in 1..(Len(Catalogue) - 1) }
  /\ prefs = UserPreferences(<<"museum">>, 50, "balanced", 8, FALSE)
  /\ locked = <<>>
  /\ SchedInit
  /\ MgrInit
  /\ NoCall

TripDays == trip.start_date..trip.end_date

RECURSIVE RemoveFirst(_, _)
RemoveFirst(s, a) ==
  IF s = <<>> THEN <<>>
  ELSE IF Head(s) = a THEN Tail(s)
  ELSE <<Head(s)>> \o RemoveFirst(Tail(s), a)

RECURSIVE SumLen(_, _)
SumLen(f, D) ==
  IF D = {} THEN 0
  ELSE LET d == CHOOSE x \in D : TRUE
       IN  Len(f[d]) + SumLen(f, D \ {d})

DayLockCount == SumLen(locked_per_day, DOMAIN locked_per_day)

\* Lines 49-52: locked_per_day[specific_day].append(activity).
AppendDayLock(f, d, a) ==
  [k \in DOMAIN f \cup {d} |->
     IF k = d THEN Append(IF d \in DOMAIN f THEN f[d] ELSE <<>>, a) ELSE f[k]]

\* Lines 43-45: lock_activity refuses an activity that is not on offer.
LockRefused(a) == a \notin SeqRange(activities)

\* lock_activity(activity, specific_day), lines 25-57.
LockActivity(a, d) ==
  /\ d /= NoDay => DayLockCount < MaxDayLocks
  /\ IF LockRefused(a)
     THEN /\ fresh' = FALSE
          /\ UNCHANGED <<locked_activities, locked_per_day, day_locked>>
     ELSE /\ locked_activities' = locked_activities \cup {a}
          /\ IF d /= NoDay
             THEN /\ locked_per_day' = AppendDayLock(locked_per_day, d, a)
                  /\ day_locked' = day_locked \cup {<<a, d>>}
             ELSE UNCHANGED <<locked_per_day, day_locked>>
          /\ fresh' = FALSE
  /\ UNCHANGED <<inputVars, fnVars, schedVars, excluded_activities, current_itinerary>>

\* unlock_activity(activity), lines 59-84.
UnlockActivity(a) ==
  /\ IF a \notin locked_activities
     THEN /\ fresh' = FALSE
          /\ UNCHANGED <<locked_activities, locked_per_day, day_locked>>
     ELSE /\ locked_activities' = locked_activities \ {a}
          /\ locked_per_day' =
               [k \in DOMAIN locked_per_day |->
                  RemoveFirst(locked_per_day[k], a)]
          /\ day_locked' = { x \in day_locked : x[1] /= a }
          /\ fresh' = FALSE
  /\ UNCHANGED <<inputVars, fnVars, schedVars, excluded_activities, current_itinerary>>

\* Lines 100-102: exclude_activity refuses a locked activity.
ExcludeRefused(a) == a \in locked_activities

\* exclude_activity(activity), lines 86-106.
ExcludeActivity(a) ==
  /\ IF ExcludeRefused(a)
     THEN /\ fresh' = FALSE
          /\ UNCHANGED excluded_activities
     ELSE /\ excluded_activities' = excluded_activities \cup {a}
          /\ fresh' = FALSE
  /\ UNCHANGED <<inputVars, fnVars, schedVars, locked_activities, locked_per_day,
                 day_locked, current_itinerary>>

\* unexclude_activity(activity), lines 108-128.
UnexcludeActivity(a) ==
  /\ IF a \notin excluded_activities
     THEN /\ fresh' = FALSE
          /\ UNCHANGED excluded_activities
     ELSE /\ excluded_activities' = excluded_activities \ {a}
          /\ fresh' = FALSE
  /\ UNCHANGED <<inputVars, fnVars, schedVars, locked_activities, locked_per_day,
                 day_locked, current_itinerary>>

\* get_available_activities(), lines 130-142.
get_available_activities ==
  SelectSeq(activities, LAMBDA a : a \notin excluded_activities)

\* list(self.locked_activities): the set in any order.
ListsOf(S) ==
  { s \in SeqsOfLen(S, Cardinality(S)) : SeqRange(s) = S }

\* regenerate_itinerary(create_itinerary), lines 144-180.
Regenerate ==
  /\ \E lk \in ListsOf(locked_activities) :
       current_itinerary' =
         create_itinerary(trip, get_available_activities, prefs, lk)
  /\ fresh' = TRUE
  /\ UNCHANGED <<inputVars, fnVars, schedVars, locked_activities, locked_per_day,
                 excluded_activities, day_locked>>

NextMgr ==
  \/ \E a \in ActivityUniverse, d \in TripDays \cup {NoDay} : LockActivity(a, d)
  \/ \E a \in SeqRange(activities) : UnlockActivity(a)
  \/ \E a \in SeqRange(activities) : ExcludeActivity(a)
  \/ \E a \in SeqRange(activities) : UnexcludeActivity(a)
  \/ Regenerate

SpecMgr == InitMgr /\ [][NextMgr]_vars

\* ------------------------------------------------------------- properties
RECURSIVE Flatten(_)
Flatten(it) ==
  IF it = <<>> THEN <<>> ELSE Head(it).activities \o Flatten(Tail(it))

Scheduled(it) == SeqRange(Flatten(it))

Done == pc = "done"

NoRepeat(s) == \A i, j \in 1..Len(s) : i /= j => s[i] /= s[j]

AllEmpty(it) == \A i \in 1..Len(it) : it[i].activities = <<>>

C7_NoCandidates ==
  (Done /\ activities = <<>> /\ locked = <<>>) =>
    /\ Len(itinerary) = trip_length(trip)
    /\ \A i \in 1..Len(itinerary) :
         /\ itinerary[i].activities = <<>>
         /\ total_cost(itinerary[i]) = 0
         /\ total_duration(itinerary[i]) = 0

C7_Witness ==
  /\ Done
  /\ activities = <<>>
  /\ locked = <<>>
  /\ trip_length(trip) >= 2
  /\ Len(itinerary) >= 2

ScoreCategories == {"museum", "Museum", "nature", "tour", "food", "", NoCategory}

ScoreDurations == {0, 3, 4, 8}

ScorePrices == {0 - 10, 0, 10, 20, 100}

ScoreInterests == { <<>>, <<"museum">>, <<"Nature", "tour">>, <<"MUSEUM", "food">> }

ScheduleTypes == {"relaxed", "balanced", "packed"}

\* The already_scheduled lists: what counts in them is the category.
Contexts ==
  SeqsUpTo({ Activity("Seen", c, 2, 0, NoLocation) : c \in {"Museum", NoCategory} },
           MaxContext)

\* A scheduler that is not running, for the specifications of single calls.
Idle ==
  /\ trip = Trip(1, 1, 0)
  /\ activities = <<>>
  /\ prefs = UserPreferences(<<>>, 0, "balanced", 0, FALSE)
  /\ locked = <<>>
  /\ SchedInit
  /\ MgrInit

InitScore ==
  /\ Idle
  /\ \E c \in ScoreCategories, d \in ScoreDurations, pr \in ScorePrices,
        i \in ScoreInterests, t \in ScheduleTypes, pc_ \in BOOLEAN,
        ctx \in Contexts :
       args = [fn |-> "score_activity",
               activity |-> Activity("Candidate", c, d, pr, NoLocation),
               prefs |-> UserPreferences(i, 100, t, 8, pc_),
               already_scheduled |-> ctx]
  /\ result = [returned |-> FALSE]

\* score_activity(activity, prefs, already_scheduled), lines 10-145.
ScoreActivity ==
  /\ args.fn = "score_activity"
  /\ ~result.returned
  /\ result' =
       IF score_activity_raises(args.activity)
       THEN [returned |-> TRUE, raised |-> TRUE, score |-> 0]
       ELSE [returned |-> TRUE, raised |-> FALSE,
             score |-> score_activity(args.activity, args.prefs,
                                      args.already_scheduled)]
  /\ UNCHANGED <<inputVars, schedVars, mgrVars, args>>

NextScore == ScoreActivity

SpecScore == InitScore /\ [][NextScore]_vars

Scored == args.fn = "score_activity" /\ result.returned

InInterests(a, p) ==
  Lower(a.category) \in { Lower(i) : i \in SeqRange(p.interests) }

\* C11 as stated: of two activities that differ only in category, scored with
\* the same preferences and context, one in the interests and one not, the
\* one in the interests scores at least 30 points more.
C11_InterestDominance ==
  (Scored /\ ~result.raised) =>
    \A c \in ScoreCategories \ {NoCategory} :
      LET a == args.activity
          b == [a EXCEPT !.category = c]
      IN  (InInterests(a, args.prefs) /\ ~InInterests(b, args.prefs))
            => result.score >=
                 score_activity(b, args.prefs, args.already_scheduled) + Pts(30)

\* C11 amended: the same, for contexts that hold no more activities of the
\* matching activity's category than of the other's.
C11_InterestDominanceEvenContext ==
  (Scored /\ ~result.raised) =>
    \A c \in ScoreCategories \ {NoCategory} :
      LET a == args.activity
          b == [a EXCEPT !.category = c]
      IN  (/\ InInterests(a, args.prefs)
           /\ ~InInterests(b, args.prefs)
           /\ CategoryCount(a, args.already_scheduled)
                <= CategoryCount(b, args.already_scheduled))
            => result.score >=
                 score_activity(b, args.prefs, args.already_scheduled) + Pts(30)

\* A matching activity and one of a complementary category, which scores
\* exactly 30 points less.
C11_Witness ==
  /\ Scored
  /\ ~result.raised
  /\ InInterests(args.activity, args.prefs)
  /\ \E c \in ScoreCategories \ {NoCategory} :
       LET b == [args.activity EXCEPT !.category = c]
       IN  /\ ~InInterests(b, args.prefs)
           /\ CategoryCount(args.activity, args.already_scheduled)
                <= CategoryCount(b, args.already_scheduled)
           /\ result.score =
                score_activity(b, args.prefs, args.already_scheduled) + Pts(30)

\* C12: score_activity does not raise on an empty or missing category; the
\* activity gets no interest or complementary bonus and the other four terms.
C12_TotalOnMissingCategory ==
  (Scored /\ args.activity.category \in {"", NoCategory}) =>
    /\ ~result.raised
    /\ result.score =
         CostTerm(args.activity, args.prefs)
           + ScheduleTerm(args.activity, args.prefs)
           + VarietyTerm([args.activity EXCEPT !.category = ""],
                         args.already_scheduled)
           + FlexibilityTerm(args.activity)

\* ------------------------------- create_itinerary, packed against relaxed
MaxCompared == 3

ComparedInterests == { <<"museum">>, <<"entertainment">>, <<"Nature", "tour">> }

\* (relaxed, packed) values of max_hours_per_day, the relaxed one smaller.
ComparedHours == { <<4, 8>>, <<2, 4>>, <<2, 8>> }

InitCompare ==
  /\ trip \in Trips
  /\ activities \in SeqsUpTo(ActivityUniverse, MaxCompared)
  /\ prefs = UserPreferences(<<>>, 0, "balanced", 0, FALSE)
  /\ locked = <<>>
  /\ SchedInit
  /\ MgrInit
  /\ \E i \in ComparedInterests, c \in BOOLEAN, h \in ComparedHours :
       args = [fn |-> "create_itinerary",
               relaxed_prefs |-> UserPreferences(i, 1000, "relaxed", h[1], c),
               packed_prefs |-> UserPreferences(i, 1000, "packed", h[2], c)]
  /\ result = [returned |-> FALSE]

\* sum(len(day.activities) for day in itinerary)
TotalActivities(it) == Len(Flatten(it))

\* The two calls of test_scheduler_packed_maximizes_activities.
ComparePackedRelaxed ==
  /\ args.fn = "create_itinerary"
  /\ ~result.returned
  /\ result' =
       [returned |-> TRUE,
        packed_itinerary |->
          create_itinerary(trip, activities, args.packed_prefs, locked),
        relaxed_itinerary |->
          create_itinerary(trip, activities, args.relaxed_prefs, locked)]
  /\ UNCHANGED <<inputVars, schedVars, mgrVars, args>>

NextCompare == ComparePackedRelaxed

SpecCompare == InitCompare /\ [][NextCompare]_vars

MaxScored == 3

\* Museum and Gallery differ in name only, so they always score the same.
ScoredUniverse ==
  { Activity("Museum",  "Museum", 4, 20, NoLocation),
    Activity("Gallery", "museum", 4, 20, NoLocation),
    Activity("Park",    "nature", 2, 0,  NoLocation),
    Activity("Theater", "entertainment", 6, 100, NoLocation) }

ScoredPreferences ==
  { UserPreferences(<<"museum">>, 100, "balanced", 8, FALSE),
    UserPreferences(<<"Nature", "tour">>, 100, "relaxed", 8, TRUE),
    UserPreferences(<<>>, 100, "packed", 8, FALSE) }

ScoredContexts ==
  SeqsUpTo({ Activity("Seen", "nature", 2, 0, NoLocation) }, MaxContext)

\* The scores in input order, with the sort of line 182 left out.
score_all_activities_unsorted(acts, p, sched) ==
  [i \in 1..Len(acts) |-> [score |-> score_activity(acts[i], p, sched),
                           activity |-> acts[i]]]

\* Lines 170-185.
score_all_activities(acts, p, sched) ==
  SortByScoreDesc(<<>>,
    [i \in 1..Len(acts) |-> [score |-> score_activity(acts[i], p, sched),
                             activity |-> acts[i]]])

InitScoreAll ==
  /\ Idle
  /\ \E acts \in SeqsUpTo(ScoredUniverse, MaxScored), p \in ScoredPreferences,
        ctx \in ScoredContexts :
       args = [fn |-> "score_all_activities", activities |-> acts,
               prefs |-> p, already_scheduled |-> ctx]
  /\ result = [returned |-> FALSE]

ScoreAllActivities ==
  /\ args.fn = "score_all_activities"
  /\ ~result.returned
  /\ result' =
       [returned |-> TRUE,
        scored |-> score_all_activities(args.activities, args.prefs,
                                        args.already_scheduled)]
  /\ UNCHANGED <<inputVars, schedVars, mgrVars, args>>

NextScoreAll == ScoreAllActivities

SpecScoreAll == InitScoreAll /\ [][NextScoreAll]_vars

ScoredAll == args.fn = "score_all_activities" /\ result.returned

\* C14: the result of score_all_activities is a rearrangement of the input as
\* (score, activity) pairs, each score being score_activity of the activity in
\* the given context, in non-increasing order of score, two activities of
\* equal score staying in their input order; an empty input gives an empty
\* list.
C14_SortedStablePermutation ==
  ScoredAll =>
    LET in == args.activities
        out == result.scored
        n == Len(in)
        s(i) == score_activity(in[i], args.prefs, args.already_scheduled)
    IN  /\ Len(out) = n
        /\ (in = <<>> => out = <<>>)
        /\ \A k \in 1..(n - 1) : out[k].score >= out[k + 1].score
        /\ \E f \in [1..n -> 1..n] :
             /\ \A i, j \in 1..n : i /= j => f[i] /= f[j]
             /\ \A i \in 1..n : out[f[i]] = [score |-> s(i), activity |-> in[i]]
             /\ \A i, j \in 1..n : (i < j /\ s(i) = s(j)) => f[i] < f[j]

\* Two different activities tie, and a later input overtakes an earlier one,
\* in a context that changes the scores.
C14_Witness ==
  /\ ScoredAll
  /\ args.already_scheduled /= <<>>
  /\ \E i, j \in 1..Len(result.scored) :
       /\ i < j
       /\ result.scored[i].score = result.scored[j].score
       /\ result.scored[i].activity /= result.scored[j].activity
  /\ \E i \in 1..Len(args.activities) :
       result.scored[1].activity = args.activities[i] /\ i > 1
       /\ result.scored[1].score > result.scored[Len(result.scored)].score

\* --------------------------------------------- create_itinerary, continued
\* C16: no step of create_itinerary changes the caller's activities list,
\* locked_activities list, preferences or trip (trip.itinerary and trip.budget
\* included); the used set and the running budget are the call's own.
C16_InputsUnchanged ==
  [][/\ activities' = activities
     /\ locked' = locked
     /\ prefs' = prefs
     /\ trip' = trip
     /\ trip'.itinerary = <<>>
     /\ trip'.budget = trip.budget]_vars

\* The call has ranked the candidates in another order than the caller's,
\* used some and spent money, and the inputs are as they were.
C16_Witness ==
  /\ Done
  /\ used /= {}
  /\ remaining_budget < trip.budget
  /\ Len(activities) > 1
  /\ scored_activities[1].activity /= activities[1]
  /\ locked /= <<>>
  /\ trip.itinerary = <<>>

\* The positions of locked_activities whose activity is not used yet and no
\* longer than a full day.
QualifyingLocked ==
  { i \in 1..Len(locked) :
      locked[i] \notin used /\ locked[i].duration <= prefs.max_hours_per_day }

Least(S) == CHOOSE i \in S : \A j \in S : i <= j

AnchorCandidates ==
  { i \in 1..Len(scored_activities) :
      LET a == scored_activities[i].activity
      IN  /\ a \notin used
          /\ a.duration <= prefs.max_hours_per_day
          /\ a.price <= remaining_budget }

FillCandidates ==
  { i \in 1..Len(scored_activities) :
      LET a == scored_activities[i].activity
      IN  /\ a \notin used
          /\ a.duration <= hours_left
          /\ a.price <= remaining_budget }

SameCategoryUniverse ==
  { Activity("Museum",  "Museum", 4, 20, 0),
    Activity("Gallery", "museum", 4, 20, 10),
    Activity("Exhibit", "museum", 2, 0, 10),
    Activity("Park",    "nature", 2, 0, 80) }

InitSameCategory ==
  /\ trip \in Trips
  /\ activities \in SeqsUpTo(SameCategoryUniverse, MaxActs)
  /\ prefs \in Preferences
  /\ locked \in SeqsUpTo(SameCategoryUniverse, 1)
  /\ SchedInit
  /\ MgrInit
  /\ NoCall

SpecSameCategory == InitSameCategory /\ [][Next]_vars

\* C21: once computed, at every point of the call, the ranking is the
\* candidates each with score_activity(candidate, prefs) for an empty
\* context, in non-increasing order of that score, candidates of equal score
\* in input order; nothing that is placed changes it.
C21_RankingStatic ==
  pc /= "score" =>
    LET n == Len(activities)
        s(i) == score_activity(activities[i], prefs, <<>>)
    IN  /\ Len(scored_activities) = n
        /\ \A k \in 1..(n - 1) :
             scored_activities[k].score >= scored_activities[k + 1].score
        /\ \E f \in [1..n -> 1..n] :
             /\ \A i, j \in 1..n : i /= j => f[i] /= f[j]
             /\ \A i \in 1..n :
                  scored_activities[f[i]] =
                    [score |-> s(i), activity |-> activities[i]]
             /\ \A i, j \in 1..n : (i < j /\ s(i) = s(j)) => f[i] < f[j]

\* Two activities of one category are in the itinerary; the second kept the
\* base score it was ranked with, which the variety term would have lowered.
C21_Witness ==
  /\ Done
  /\ \E d \in 1..Len(itinerary) :
       /\ Len(itinerary[d].activities) >= 2
       /\ LET first == itinerary[d].activities[1]
              second == itinerary[d].activities[2]
          IN  /\ Lower(first.category) = Lower(second.category)
              /\ \E k \in 1..Len(scored_activities) :
                   /\ scored_activities[k].activity = second
                   /\ scored_activities[k].score
                        > score_activity(second, prefs, <<first>>)

\* ------------------------------------------------ score_activity, continued
\* C22: score_activity is the sum of five terms. Interest: 40 if the category
\* is in the interests, else 10 if some interest's complementary list holds
\* it, else 0. Cost, with prioritize_cost: +15 at price 0, +5 for
\* 0 < price < 20, -0.8 price for price >= 20; without: +5 at price 0, else
\* -0.15 price. Schedule fit: relaxed +15 for duration <= 2 h and -10 for
\* >= 4 h; packed +10 for >= 2 h; otherwise +10 for 1.5 h to 3 h. Variety:
\* +10, 0, -10, -20 for 0, 1, 2, 3 or more scheduled activities of the
\* category. Flexibility: +8 up to 1 h, +5 up to 2 h, +2 up to 3 h, else 0.
C22_SumOfFiveTerms ==
  (Scored /\ ~result.raised) =>
    LET a == args.activity
        p == args.prefs
        cat == Lower(a.category)
        ints == { Lower(i) : i \in SeqRange(p.interests) }
        interest ==
          IF cat \in ints THEN Pts(40)
          ELSE IF \E i \in ints : cat \in complementary(i) THEN Pts(10)
          ELSE 0
        cost ==
          IF p.prioritize_cost
          THEN CASE a.price = 0 -> Pts(15)
                 [] 0 < a.price /\ a.price < 20 -> Pts(5)
                 [] a.price >= 20 -> 0 - 16 * a.price
                 [] OTHER -> 0
          ELSE IF a.price = 0 THEN Pts(5) ELSE 0 - 3 * a.price
        fit ==
          CASE p.schedule_type = "relaxed" ->
                 (CASE a.duration <= 4 -> Pts(15)
                    [] a.duration >= 8 -> 0 - Pts(10)
                    [] OTHER -> 0)
            [] p.schedule_type = "packed" ->
                 (IF a.duration >= 4 THEN Pts(10) ELSE 0)
            [] OTHER ->
                 (IF 3 <= a.duration /\ a.duration <= 6 THEN Pts(10) ELSE 0)
        same ==
          Cardinality({ k \in 1..Len(args.already_scheduled) :
            Lower(OrEmpty(args.already_scheduled[k].category)) = cat })
        variety ==
          CASE same = 0 -> Pts(10)
            [] same = 1 -> 0
            [] same = 2 -> 0 - Pts(10)
            [] OTHER    -> 0 - Pts(20)
        flexibility ==
          CASE a.duration <= 2 -> Pts(8)
            [] a.duration <= 4 -> Pts(5)
            [] a.duration <= 6 -> Pts(2)
            [] OTHER -> 0
    IN  result.score = interest + cost + fit + variety + flexibility

\* ------------------------------------------------ get_activity_clusters
MaxClustered == 5

ClusterUniverse ==
  { Activity("Museum",    "Museum",        4, 20,  0),
    Activity("Park",      "nature",        2, 0,   10),
    Activity("Cafe",      "food",          2, 10,  20),
    Activity("Market",    "shopping",      2, 0,   25),
    Activity("Theater",   "entertainment", 6, 100, 80),
    Activity("Viewpoint", "landmark",      0, 5,   NoLocation) }

\* max_distance_km: 1 km and the default 2 km.
ClusterDistances == {10, 20}

\* Line 181, with every distance taken for near.
NearEnoughAlways(distance, max_distance_km) == TRUE

\* Line 181.
NearEnough(distance, max_distance_km) == distance <= max_distance_km

\* Lines 176-183: the inner loop over `other`, from position j on.
RECURSIVE GatherNearby(_, _, _, _, _, _)
GatherNearby(acts, j, activity, cluster, u, max_distance_km) ==
  IF j > Len(acts) THEN [cluster |-> cluster, used |-> u]
  ELSE IF acts[j] \in u \/ acts[j].location = NoLocation
       THEN GatherNearby(acts, j + 1, activity, cluster, u, max_distance_km)
       ELSE IF NearEnough(haversine_distance_km(activity.location,
                                                acts[j].location),
                          max_distance_km)
            THEN GatherNearby(acts, j + 1, activity, Append(cluster, acts[j]),
                              u \cup {acts[j]}, max_distance_km)
            ELSE GatherNearby(acts, j + 1, activity, cluster, u,
                              max_distance_km)

\* Lines 167-186: the outer loop over `activity`, from position i on.
RECURSIVE ClusterLoop(_, _, _, _, _)
ClusterLoop(acts, i, clusters, u, max_distance_km) ==
  IF i > Len(acts) THEN clusters
  ELSE IF acts[i] \in u \/ acts[i].location = NoLocation
       THEN ClusterLoop(acts, i + 1, clusters, u, max_distance_km)
       ELSE LET g == GatherNearby(acts, 1, acts[i], <<acts[i]>>,
                                  u \cup {acts[i]}, max_distance_km)
            IN  ClusterLoop(acts, i + 1,
                            IF Len(g.cluster) > 1
                            THEN Append(clusters, g.cluster) ELSE clusters,
                            g.used, max_distance_km)

\* Lines 143-188.
get_activity_clusters(acts, max_distance_km) ==
  ClusterLoop(acts, 1, <<>>, {}, max_distance_km)

InitClusters ==
  /\ Idle
  /\ \E acts \in SeqsUpTo(ClusterUniverse, MaxClustered),
        m \in ClusterDistances :
       args = [fn |-> "get_activity_clusters", activities |-> acts,
               max_distance_km |-> m]
  /\ result = [returned |-> FALSE]

GetActivityClusters ==
  /\ args.fn = "get_activity_clusters"
  /\ ~result.returned
  /\ result' =
       [returned |-> TRUE,
        clusters |-> get_activity_clusters(args.activities,
                                           args.max_distance_km)]
  /\ UNCHANGED <<inputVars, schedVars, mgrVars, args>>

NextClusters == GetActivityClusters

SpecClusters == InitClusters /\ [][NextClusters]_vars

Clustered == args.fn = "get_activity_clusters" /\ result.returned

\* C23: every cluster returned has at least two activities, all of them with
\* a location and within max_distance_km of the cluster's first; no activity
\* is in two clusters (or twice in one); an activity without a location is in
\* none.
C23_ClusterShape ==
  Clustered =>
    LET cs == result.clusters
    IN  /\ \A c \in 1..Len(cs) :
             /\ Len(cs[c]) >= 2
             /\ \A k \in 1..Len(cs[c]) :
                  /\ cs[c][k].location /= NoLocation
                  /\ cs[c][k] \in SeqRange(args.activities)
                  /\ haversine_distance_km(cs[c][1].location,
                                           cs[c][k].location)
                       <= args.max_distance_km
        /\ \A c, d \in 1..Len(cs) :
             \A k \in 1..Len(cs[c]), l \in 1..Len(cs[d]) :
               (c /= d \/ k /= l) => cs[c][k] /= cs[d][l]

\* Two clusters come back, the second one's first activity within reach of a
\* member of the first cluster; one activity of the input has no location.
C23_Witness ==
  /\ Clustered
  /\ Len(result.clusters) = 2
  /\ \E k \in 1..Len(result.clusters[1]) :
       haversine_distance_km(result.clusters[1][k].location,
                             result.clusters[2][1].location)
         <= args.max_distance_km
  /\ \E i \in 1..Len(args.activities) :
       args.activities[i].location = NoLocation

\* --------------------------------------------- create_itinerary, liveness
\* The call runs on: one thread, no waiting, so a step that can be taken is.
InitFair ==
  /\ trip \in Trips
  /\ activities \in SeqsUpTo(ActivityUniverse, MaxActs)
  /\ prefs \in Preferences
  /\ locked \in SeqsUpTo(ActivityUniverse, 1)
  /\ SchedInit
  /\ MgrInit
  /\ NoCall

SpecFair == InitFair /\ [][Next]_vars /\ WF_vars(Next)

StillFits ==
  { a \in SeqRange(activities) :
      a \notin used /\ a.duration <= hours_left /\ a.price <= remaining_budget }

C28_LockedExcludedDisjoint ==
  locked_activities \cap excluded_activities = {}

\* C29: whatever lock and unlock calls were made, every activity in a
\* locked_per_day list is in locked_activities.
C29_DayLocksAreLocks ==
  \A d \in DOMAIN locked_per_day :
    SeqRange(locked_per_day[d]) \subseteq locked_activities

\* ------------------------------------------------ score_activity and price
\* C30: of two activities that differ only in price, scored with the same
\* preferences and context, the cheaper one never scores lower, negative
\* prices included, with and without prioritize_cost.
C30_ScoreMonotoneInPrice ==
  (Scored /\ ~result.raised) =>
    \A pr \in ScorePrices :
      pr < args.activity.price =>
        score_activity([args.activity EXCEPT !.price = pr], args.prefs,
                       args.already_scheduled) >= result.score

====
